---- MODULE Spec2Model ----
(***************************************************************************)
(* Model of schnetpack/transform/neighborlist.py.                          *)
(*                                                                         *)
(* Two state machines share this module:                                   *)
(*   SpecNL  - NeighborListTransform / TorchNeighborList / filter_short_   *)
(*             range applied to bounded structures (pure tensor code).     *)
(*   Spec    - CachedNeighborList: construction, concurrent forward calls  *)
(*             of several worker processes on one cache location, and      *)
(*             teardown.  The processes look up one structure id: file     *)
(*             and lock names depend on the id alone, so the entries of    *)
(*             different ids do not interact.  FairSpec adds the fair      *)
(*             scheduling of the processes.                                *)
(*                                                                         *)
(* Structures have at least two atoms.                                     *)
(*                                                                         *)
(* Lengths are integers.  The search is invariant under a common scaling   *)
(* of positions, cell and cutoff, so a structure given in multiples of 0.5 *)
(* is modelled with every length doubled.  A comparison norm(v) < c with   *)
(* c >= 0 is computed as Norm2(v) < c*c.                                   *)
(***************************************************************************)
EXTENDS Integers, Sequences, FiniteSets, TLC

VARIABLES
    phase,              \* the CachedNeighborList object: "new", "ready", "failed", "torn_down"
    keep_cache,         \* constructor argument
    has_tmp_workdir,    \* cache_workdir is not None
    preexisting_cache,  \* self.preexisting_cache
    existedBefore,      \* history: cache_path existed when __init__ was entered
    dirExists,          \* file system: does cache_path ("path") / cache_workdir ("work") exist
    entry,              \* file system: state of cache_<id>.pt in each directory
    lock,               \* holder of cache_<id>.lock at cache_location, or NoProc
    pc,                 \* per process: position in forward
    calls,              \* forward calls started, all processes together
    outcome,            \* per process: how the last forward call ended
    exc,                \* per process: exception of the last call: "compute", "write", or
                        \* the state of the entry file a torch.load failed on; "none"
    computes,           \* history: runs of the wrapped neighbor list
    writes,             \* history: torch.save calls that opened the entry file
    faulted,            \* history: the wrapped neighbor list or torch.save has failed
    sawPartial,         \* history: a torch.load ran on the file while torch.save was writing it
    firstEntry,         \* history: state of the entry file at cache_location after __init__
    nlPc,       \* position of the neighbor-list transform: "new", "ready", "done", "invalid"
    nlIn,       \* the structure and the constructor arguments
    nlCut,      \* self._cutoff, set by NeighborListTransform.__init__
    nlCalls,    \* the calls of _build_neighbor_list made so far: cutoff and result
    nlOut       \* what forward returned (or that it raised)

nlVars == <<nlPc, nlIn, nlCut, nlCalls, nlOut>>

cacheVars ==
    <<phase, keep_cache, has_tmp_workdir, preexisting_cache, existedBefore, dirExists,
      entry, lock, pc, calls, outcome, exc, computes, writes, faulted, sawPartial,
      firstEntry>>

vars == <<cacheVars, nlVars>>

(***************************************************************************)
(* Vectors, 3x3 cells                                                      *)
(***************************************************************************)
VSub(a, b) == <<a[1] - b[1], a[2] - b[2], a[3] - b[3]>>

VAdd(a, b) == <<a[1] + b[1], a[2] + b[2], a[3] + b[3]>>

VNeg(a) == <<-a[1], -a[2], -a[3]>>

Norm2(a) == a[1] * a[1] + a[2] * a[2] + a[3] * a[3]

Cross(a, b) ==
    <<a[2] * b[3] - a[3] * b[2], a[3] * b[1] - a[1] * b[3], a[1] * b[2] - a[2] * b[1]>>

Dot(a, b) == a[1] * b[1] + a[2] * b[2] + a[3] * b[3]

Det(cell) == Dot(cell[1], Cross(cell[2], cell[3]))

\* torch.mm(shift, cell) for one row: shift[1]*cell[1] + shift[2]*cell[2] + shift[3]*cell[3]
ShiftValue(s, cell) ==
    <<s[1] * cell[1][1] + s[2] * cell[2][1] + s[3] * cell[3][1],
      s[1] * cell[1][2] + s[2] * cell[2][2] + s[3] * cell[3][2],
      s[1] * cell[1][3] + s[2] * cell[2][3] + s[3] * cell[3][3]>>

(***************************************************************************)
(* Tensor helpers (ordered containers)                                     *)
(***************************************************************************)
\* torch.arange(a, b + 1)
Arange(a, b) == [k \in 1..(b - a + 1) |-> a + k - 1]

NegSeq(s) == [k \in DOMAIN s |-> -s[k]]

NegVecs(s) == [k \in DOMAIN s |-> VNeg(s[k])]

\* torch.cartesian_prod(a, b, c): row-major, the last factor varies fastest
CartesianProd(a, b, c) ==
    [n \in 1..(Len(a) * Len(b) * Len(c)) |->
        <<a[((n - 1) \div (Len(b) * Len(c))) + 1],
          b[(((n - 1) \div Len(c)) % Len(b)) + 1],
          c[((n - 1) % Len(c)) + 1]>>]

\* tensor[index] for an index tensor
Gather(t, index) == [k \in DOMAIN index |-> t[index[k]]]

\* torch.combinations(arange(n)): the pairs i < j in lexicographic order, 0-based
Combinations(n) ==
    LET all == CartesianProd(Arange(0, n - 1), Arange(0, n - 1), <<0>>)
        Lt(t) == t[1] < t[2]
    IN  SelectSeq(all, Lt)

(***************************************************************************)
(* TorchNeighborList._get_shifts                                           *)
(***************************************************************************)
RECURSIVE LeastRepeat(_, _, _)
\* the least n >= 0 with n * sqrt(den2) >= sqrt(num2)
LeastRepeat(n, num2, den2) ==
    IF n * n * den2 >= num2 THEN n ELSE LeastRepeat(n + 1, num2, den2)

\* Row k of cell.inverse().t() is the reciprocal vector (a_{k+1} x a_{k+2}) / det,
\* so ceil(cutoff * inverse_lengths[k]) is the least n with
\* n * |det| >= cutoff * |a_{k+1} x a_{k+2}|.
CeilCutoffInvLength(cell, k, cutoff) ==
    LET c == Cross(cell[(k % 3) + 1], cell[((k + 1) % 3) + 1])
    IN  LeastRepeat(0, cutoff * cutoff * Norm2(c), Det(cell) * Det(cell))

NumRepeats(cell, pbc, cutoff) ==
    [k \in 1..3 |-> IF pbc[k] THEN CeilCutoffInvLength(cell, k, cutoff) ELSE 0]

\* a shift generator that also emits the blocks (-r1, 0, 0), the opposites of
\* (r1, 0, 0)
ShiftBlocksBothSigns(r1, r2, r3, o) ==
    CartesianProd(r1, r2, r3) \o
    CartesianProd(r1, r2, o) \o
    CartesianProd(r1, r2, NegSeq(r3)) \o
    CartesianProd(r1, o, r3) \o
    CartesianProd(r1, o, o) \o
    CartesianProd(NegSeq(r1), o, o) \o
    CartesianProd(r1, o, NegSeq(r3)) \o
    CartesianProd(r1, NegSeq(r2), r3) \o
    CartesianProd(r1, NegSeq(r2), o) \o
    CartesianProd(r1, NegSeq(r2), NegSeq(r3)) \o
    CartesianProd(o, r2, r3) \o
    CartesianProd(o, r2, o) \o
    CartesianProd(o, r2, NegSeq(r3)) \o
    CartesianProd(o, o, r3)

ShiftBlocks(r1, r2, r3, o) ==
    CartesianProd(r1, r2, r3) \o
    CartesianProd(r1, r2, o) \o
    CartesianProd(r1, r2, NegSeq(r3)) \o
    CartesianProd(r1, o, r3) \o
    CartesianProd(r1, o, o) \o
    CartesianProd(r1, o, NegSeq(r3)) \o
    CartesianProd(r1, NegSeq(r2), r3) \o
    CartesianProd(r1, NegSeq(r2), o) \o
    CartesianProd(r1, NegSeq(r2), NegSeq(r3)) \o
    CartesianProd(o, r2, r3) \o
    CartesianProd(o, r2, o) \o
    CartesianProd(o, r2, NegSeq(r3)) \o
    CartesianProd(o, o, r3)

GetShifts(cell, pbc, cutoff) ==
    LET num_repeats == NumRepeats(cell, pbc, cutoff)
    IN  ShiftBlocks(Arange(1, num_repeats[1]), Arange(1, num_repeats[2]),
                    Arange(1, num_repeats[3]), <<0>>)

(***************************************************************************)
(* TorchNeighborList._get_neighbor_pairs                                   *)
(***************************************************************************)
\* the candidate displacement with the two atoms exchanged
CandidateRijReversed(positions, cell, pi, pj, shift) ==
    VAdd(VSub(positions[pj + 1], positions[pi + 1]), ShiftValue(shift, cell))

\* Rij_all of one candidate: positions[pi] - positions[pj] + shift_values
CandidateRij(positions, cell, pi, pj, shift) ==
    VAdd(VSub(positions[pi + 1], positions[pj + 1]), ShiftValue(shift, cell))

\* distances < cutoff
InCutoff(rij, cutoff) == Norm2(rij) < cutoff * cutoff

\* zero_dim: in_cutoff.squeeze() of a (1, 1) tensor is a 0-dimensional tensor, and
\* so are pi_all[pair_index] and pj_all[pair_index] then.
GetNeighborPairs(positions, cell, shifts, cutoff) ==
    LET num_atoms == Len(positions)
        center == Combinations(num_atoms)
        outside == CartesianProd(Arange(1, Len(shifts)), Arange(0, num_atoms - 1),
                                 Arange(0, num_atoms - 1))
        shifts_all == [k \in DOMAIN center |-> <<0, 0, 0>>] \o
                      [k \in DOMAIN outside |-> shifts[outside[k][1]]]
        pi_all == [k \in DOMAIN center |-> center[k][1]] \o
                  [k \in DOMAIN outside |-> outside[k][2]]
        pj_all == [k \in DOMAIN center |-> center[k][2]] \o
                  [k \in DOMAIN outside |-> outside[k][3]]
        Rij_all == [k \in DOMAIN pi_all |->
                       CandidateRij(positions, cell, pi_all[k], pj_all[k], shifts_all[k])]
        Within(k) == InCutoff(Rij_all[k], cutoff)
        pair_index == SelectSeq(Arange(1, Len(pi_all)), Within)
    IN  [atom_index_i |-> Gather(pi_all, pair_index),
         atom_index_j |-> Gather(pj_all, pair_index),
         Rij |-> Gather(Rij_all, pair_index),
         offsets |-> Gather(shifts_all, pair_index),
         zero_dim |-> Len(pair_index) = 1]

(***************************************************************************)
(* TorchNeighborList._build_neighbor_list                                  *)
(***************************************************************************)
RECURSIVE OrdersOf(_, _)
\* the orders of the index set `rest` in which `keys` is non-decreasing
OrdersOf(keys, rest) ==
    IF rest = {} THEN {<<>>}
    ELSE LET least == CHOOSE m \in {keys[k] : k \in rest} :
                          \A k \in rest : m <= keys[k]
         IN  UNION {{<<k>> \o t : t \in OrdersOf(keys, rest \ {k})} :
                        k \in {x \in rest : keys[x] = least}}

\* torch.argsort(keys) with the default stable=False: the order of equal keys is
\* unspecified, so every sorting permutation is a possible value.
Argsort(keys) == OrdersOf(keys, DOMAIN keys)

\* the arrays returned for one value of sorted_idx
Bidirectional(pairs, sorted_idx, return_offset) ==
    LET bi_idx_i == pairs.atom_index_i \o pairs.atom_index_j
        bi_idx_j == pairs.atom_index_j \o pairs.atom_index_i
        bi_Rij == NegVecs(pairs.Rij) \o pairs.Rij
        bi_offset == NegVecs(pairs.offsets) \o pairs.offsets
    IN  [raised |-> FALSE,
         idx_i |-> Gather(bi_idx_i, sorted_idx),
         idx_j |-> Gather(bi_idx_j, sorted_idx),
         Rij |-> Gather(bi_Rij, sorted_idx),
         offset |-> IF return_offset THEN Gather(bi_offset, sorted_idx) ELSE <<>>]

Raised == [raised |-> TRUE, idx_i |-> <<>>, idx_j |-> <<>>, Rij |-> <<>>, offset |-> <<>>]

\* The set of possible results.  torch.cat of 0-dimensional tensors raises.
BuildNeighborList(positions, cell, pbc, cutoff, return_offset) ==
    LET shifts == IF \A k \in 1..3 : ~pbc[k] THEN <<>> ELSE GetShifts(cell, pbc, cutoff)
        pairs == GetNeighborPairs(positions, cell, shifts, cutoff)
    IN  IF pairs.zero_dim THEN {Raised}
        ELSE {Bidirectional(pairs, sorted_idx, return_offset) :
                  sorted_idx \in Argsort(pairs.atom_index_i \o pairs.atom_index_j)}

(***************************************************************************)
(* filter_short_range                                                      *)
(***************************************************************************)
\* a short-range test that drops the pairs exactly at the cutoff
InShortRangeStrict(rij, short_range_cutoff) ==
    Norm2(rij) < short_range_cutoff * short_range_cutoff

\* rij <= short_range_cutoff
InShortRange(rij, short_range_cutoff) ==
    Norm2(rij) <= short_range_cutoff * short_range_cutoff

FilterShortRange(idx_i, idx_j, Rij, short_range_cutoff, offset, has_offset) ==
    LET Keep(k) == InShortRange(Rij[k], short_range_cutoff)
        cidx == SelectSeq(Arange(1, Len(Rij)), Keep)
    IN  [raised |-> FALSE,
         idx_i |-> Gather(idx_i, cidx),
         idx_j |-> Gather(idx_j, cidx),
         Rij |-> Gather(Rij, cidx),
         offset |-> IF has_offset THEN Gather(offset, cidx) ELSE <<>>]

(***************************************************************************)
(* Bounded structures and configurations                                   *)
(***************************************************************************)
MaxAtoms == 3

\* a structure is kept when no atom has more neighbors (periodic images counted)
\* within the search cutoff than this
MaxNeighbors == 3

\* the brute-force reference search looks at the images -MaxImage..MaxImage per axis
MaxImage == 3

\* atom sites; a structure takes a sub-sequence of them.  (39, 0, 0) lies outside
\* every cell below (an unwrapped position).
Sites == <<<<4, 0, 0>>, <<0, 0, 0>>, <<19, 0, 0>>, <<1, 4, 0>>, <<39, 0, 0>>>>

NoCell == <<<<0, 0, 0>>, <<0, 0, 0>>, <<0, 0, 0>>>>

Cubic == <<<<20, 0, 0>>, <<0, 20, 0>>, <<0, 0, 20>>>>

Slab == <<<<4, 0, 0>>, <<0, 20, 0>>, <<0, 0, 20>>>>

Triclinic == <<<<6, 0, 0>>, <<3, 6, 0>>, <<0, 0, 20>>>>

Lattices ==
    {[cell |-> NoCell, pbc |-> <<FALSE, FALSE, FALSE>>],
     [cell |-> Cubic, pbc |-> <<FALSE, FALSE, FALSE>>],
     [cell |-> Cubic, pbc |-> <<TRUE, TRUE, TRUE>>],
     [cell |-> Slab, pbc |-> <<TRUE, FALSE, FALSE>>],
     [cell |-> Triclinic, pbc |-> <<TRUE, TRUE, FALSE>>]}

Cutoffs == {2, 4, 5}

LongRangeCutoffs == {-1, 5}

RECURSIVE SubSeq2(_, _)
\* the sub-sequence of `s` at the index set `keep`, in order
SubSeq2(s, keep) ==
    IF s = <<>> THEN <<>>
    ELSE SubSeq2(SubSeq(s, 1, Len(s) - 1), keep) \o
         (IF Len(s) \in keep THEN <<s[Len(s)]>> ELSE <<>>)

PositionChoices ==
    {SubSeq2(Sites, keep) :
        keep \in {k \in SUBSET DOMAIN Sites : Cardinality(k) \in 2..MaxAtoms}}

ImageRange(periodic) == IF periodic THEN -MaxImage..MaxImage ELSE {0}

Images(pbc) == ImageRange(pbc[1]) \X ImageRange(pbc[2]) \X ImageRange(pbc[3])

\* Brute-force reference: atom j's image s is a neighbor of atom i when it is
\* another atom or another image and closer than the cutoff.
TrueNeighbors(positions, cell, pbc, cutoff) ==
    {t \in (0..(Len(positions) - 1)) \X (0..(Len(positions) - 1)) \X Images(pbc) :
        /\ t[1] # t[2] \/ t[3] # <<0, 0, 0>>
        /\ Norm2(VAdd(VSub(positions[t[2] + 1], positions[t[1] + 1]),
                      ShiftValue(t[3], cell))) < cutoff * cutoff}

SearchCutoff(cutoff, long_range_cutoff) ==
    IF long_range_cutoff > 0 THEN long_range_cutoff ELSE cutoff

NLInputs ==
    {in \in [positions : PositionChoices, lattice : Lattices, cutoff : Cutoffs,
             long_range_cutoff : LongRangeCutoffs, return_offset : BOOLEAN] :
        LET nb == TrueNeighbors(in.positions, in.lattice.cell, in.lattice.pbc,
                                SearchCutoff(in.cutoff, in.long_range_cutoff))
        IN  \A a \in 0..(Len(in.positions) - 1) :
                Cardinality({t \in nb : t[1] = a}) <= MaxNeighbors}

(***************************************************************************)
(* NeighborListTransform                                                   *)
(***************************************************************************)
NoResult ==
    [raised |-> FALSE, idx_i |-> <<>>, idx_j |-> <<>>, Rij |-> <<>>, offsets |-> <<>>,
     idx_i_lr |-> <<>>, idx_j_lr |-> <<>>, Rij_lr |-> <<>>, offsets_lr |-> <<>>]

NLInit ==
    /\ nlPc = "new"
    /\ nlIn \in NLInputs
    /\ nlCut = 0
    /\ nlCalls = <<>>
    /\ nlOut = NoResult
    /\ phase = "off"
    /\ keep_cache = FALSE
    /\ has_tmp_workdir = FALSE
    /\ preexisting_cache = FALSE
    /\ existedBefore = FALSE
    /\ dirExists = <<>>
    /\ entry = <<>>
    /\ lock = 0
    /\ pc = <<>>
    /\ calls = 0
    /\ outcome = <<>>
    /\ exc = <<>>
    /\ computes = 0
    /\ writes = 0
    /\ faulted = FALSE
    /\ sawPartial = FALSE
    /\ firstEntry = "absent"

\* NeighborListTransform.__init__: raises ValueError, or sets self._cutoff
NLConstruct ==
    /\ nlPc = "new"
    /\ IF nlIn.long_range_cutoff > 0
       THEN IF nlIn.cutoff >= nlIn.long_range_cutoff
            THEN nlPc' = "invalid" /\ nlCut' = nlCut
            ELSE nlPc' = "ready" /\ nlCut' = nlIn.long_range_cutoff
       ELSE nlPc' = "ready" /\ nlCut' = nlIn.cutoff
    /\ UNCHANGED <<nlIn, nlCalls, nlOut, cacheVars>>

\* the dictionary forward returns, given the result of _build_neighbor_list
ForwardResult(in, nl) ==
    LET lr == in.long_range_cutoff > 0
        sr == IF lr
              THEN FilterShortRange(nl.idx_i, nl.idx_j, nl.Rij, in.cutoff, nl.offset,
                                    in.return_offset)
              ELSE nl
    IN  [raised |-> FALSE,
         idx_i |-> sr.idx_i, idx_j |-> sr.idx_j, Rij |-> sr.Rij,
         offsets |-> IF in.return_offset THEN sr.offset ELSE <<>>,
         idx_i_lr |-> IF lr THEN nl.idx_i ELSE <<>>,
         idx_j_lr |-> IF lr THEN nl.idx_j ELSE <<>>,
         Rij_lr |-> IF lr THEN nl.Rij ELSE <<>>,
         offsets_lr |-> IF lr /\ in.return_offset THEN nl.offset ELSE <<>>]

\* NeighborListTransform.forward with TorchNeighborList._build_neighbor_list
NLForward ==
    /\ nlPc = "ready"
    /\ \E nl \in BuildNeighborList(nlIn.positions, nlIn.lattice.cell, nlIn.lattice.pbc,
                                   nlCut, nlIn.return_offset) :
          /\ nlCalls' = Append(nlCalls, [cutoff |-> nlCut, result |-> nl])
          /\ nlOut' = IF nl.raised THEN [NoResult EXCEPT !.raised = TRUE]
                      ELSE ForwardResult(nlIn, nl)
    /\ nlPc' = "done"
    /\ UNCHANGED <<nlIn, nlCut, cacheVars>>

NLNext == NLConstruct \/ NLForward

SpecNL == NLInit /\ [][NLNext]_vars

(***************************************************************************)
(* CachedNeighborList: bounds and file-system vocabulary                   *)
(***************************************************************************)
\* worker processes sharing one CachedNeighborList and one structure id
NProcs == 2

\* forward calls per run, all processes together
MaxCalls == 3

Procs == 1..NProcs

NoProc == 0

Dirs == {"path", "work"}

\* states of the file cache_<id>.pt: "writing" while a torch.save is filling it,
\* "torn" when a torch.save failed after opening it, "corrupt" for a damaged file
\* found in a cache directory of an earlier run
EntryStates == {"absent", "writing", "torn", "corrupt", "complete"}

InitialEntries == {"absent", "corrupt", "complete"}

\* self.cache_location
CacheLocation == IF has_tmp_workdir THEN "work" ELSE "path"

\* torch.load(cache_file).  A missing file is FileNotFoundError, an IOError.  A file
\* that holds no complete archive is unreadable: an OSError from the read, or the
\* RuntimeError / EOFError / UnpicklingError of the decoder, none of them an IOError.
LoadOutcomes(state) ==
    CASE state = "complete" -> {"data"}
      [] state = "absent" -> {"IOError"}
      [] OTHER -> {"IOError", "Exception"}

Init ==
    /\ phase = "new"
    /\ keep_cache \in BOOLEAN
    /\ has_tmp_workdir \in BOOLEAN
    /\ preexisting_cache = FALSE
    /\ existedBefore = FALSE
    /\ dirExists \in [Dirs -> BOOLEAN]
    /\ dirExists["work"] => has_tmp_workdir
    /\ entry \in [Dirs -> InitialEntries]
    /\ entry["work"] = "absent"
    /\ ~dirExists["path"] => entry["path"] = "absent"
    /\ lock = NoProc
    /\ pc = [p \in Procs |-> "idle"]
    /\ calls = 0
    /\ outcome = [p \in Procs |-> "unused"]
    /\ exc = [p \in Procs |-> "none"]
    /\ computes = 0
    /\ writes = 0
    /\ faulted = FALSE
    /\ sawPartial = FALSE
    /\ firstEntry = "absent"
    /\ nlPc = "off"
    /\ nlIn = <<>>
    /\ nlCut = 0
    /\ nlCalls = <<>>
    /\ nlOut = <<>>

(***************************************************************************)
(* CachedNeighborList.__init__                                             *)
(***************************************************************************)
Construct ==
    /\ phase = "new"
    /\ preexisting_cache' = dirExists["path"]
    /\ existedBefore' = dirExists["path"]
    /\ IF has_tmp_workdir
       THEN IF dirExists["work"]
            THEN \* CacheException, after os.makedirs(cache_path)
                 /\ phase' = "failed"
                 /\ dirExists' = [dirExists EXCEPT !["path"] = TRUE]
                 /\ entry' = entry
            ELSE \* shutil.copytree(cache_path, cache_workdir) if the cache existed
                 /\ phase' = "ready"
                 /\ dirExists' = [path |-> TRUE, work |-> dirExists["path"]]
                 /\ entry' = [entry EXCEPT !["work"] = entry["path"]]
       ELSE /\ phase' = "ready"
            /\ dirExists' = [dirExists EXCEPT !["path"] = TRUE]
            /\ entry' = entry
    /\ firstEntry' = entry'[CacheLocation]
    /\ UNCHANGED <<keep_cache, has_tmp_workdir, lock, pc, calls, outcome, exc, computes,
                   writes, faulted, sawPartial, nlVars>>

(***************************************************************************)
(* CachedNeighborList.forward, one process p                               *)
(***************************************************************************)
held == <<phase, keep_cache, has_tmp_workdir, preexisting_cache, existedBefore, firstEntry>>

\* forward is entered
Call(p) ==
    /\ phase = "ready"
    /\ pc[p] = "idle"
    /\ calls < MaxCalls
    /\ pc' = [pc EXCEPT ![p] = "read"]
    /\ calls' = calls + 1
    /\ outcome' = [outcome EXCEPT ![p] = "none"]
    /\ exc' = [exc EXCEPT ![p] = "none"]
    /\ UNCHANGED <<held, dirExists, entry, lock, computes, writes, faulted, sawPartial,
                   nlVars>>

\* the first torch.load, outside the lock: a hit returns, an IOError goes for the
\* lock, any other exception leaves forward
FirstRead(p) ==
    /\ pc[p] = "read"
    /\ \E r \in LoadOutcomes(entry[CacheLocation]) :
          /\ pc' = [pc EXCEPT ![p] = IF r = "IOError" THEN "acquire" ELSE "idle"]
          /\ outcome' = [outcome EXCEPT ![p] =
                            CASE r = "data" -> "hit"
                              [] r = "IOError" -> "none"
                              [] OTHER -> "raised"]
          /\ exc' = [exc EXCEPT ![p] =
                        IF r = "Exception" THEN entry[CacheLocation] ELSE "none"]
    /\ sawPartial' = (sawPartial \/ entry[CacheLocation] = "writing")
    /\ UNCHANGED <<held, dirExists, entry, lock, calls, computes, writes, faulted, nlVars>>

\* `with lock:` is entered; fasteners creates the directory of the lock file
Acquire(p) ==
    /\ pc[p] = "acquire"
    /\ lock = NoProc
    /\ lock' = p
    /\ dirExists' = [dirExists EXCEPT ![CacheLocation] = TRUE]
    /\ pc' = [pc EXCEPT ![p] = "retry"]
    /\ UNCHANGED <<held, entry, calls, outcome, exc, computes, writes, faulted,
                   sawPartial, nlVars>>

\* the torch.load under the lock: a hit, an IOError (compute), or any other
\* exception, which `except Exception` prints
RetryRead(p) ==
    /\ pc[p] = "retry"
    /\ \E r \in LoadOutcomes(entry[CacheLocation]) :
          /\ pc' = [pc EXCEPT ![p] = IF r = "IOError" THEN "compute" ELSE "exit"]
          /\ outcome' = [outcome EXCEPT ![p] =
                            CASE r = "data" -> "hit"
                              [] r = "IOError" -> "none"
                              [] OTHER -> "swallowed"]
          /\ exc' = [exc EXCEPT ![p] =
                        IF r = "Exception" THEN entry[CacheLocation] ELSE "none"]
    /\ sawPartial' = (sawPartial \/ entry[CacheLocation] = "writing")
    /\ UNCHANGED <<held, dirExists, entry, lock, calls, computes, writes, faulted, nlVars>>

\* self.neighbor_list(inputs, results): returns, or raises
Compute(p) ==
    /\ pc[p] = "compute"
    /\ computes' = computes + 1
    /\ \/ /\ pc' = [pc EXCEPT ![p] = "save"]
          /\ UNCHANGED <<exc, faulted>>
       \/ /\ faulted' = TRUE
          /\ exc' = [exc EXCEPT ![p] = "compute"]
          /\ pc' = [pc EXCEPT ![p] = "exit"]
    /\ UNCHANGED <<held, dirExists, entry, lock, calls, outcome, writes, sawPartial,
                   nlVars>>

\* torch.save(data, cache_file) opens cache_file for writing, or fails to
SaveOpen(p) ==
    /\ pc[p] = "save"
    /\ \/ /\ entry' = [entry EXCEPT ![CacheLocation] = "writing"]
          /\ writes' = writes + 1
          /\ pc' = [pc EXCEPT ![p] = "saving"]
          /\ UNCHANGED <<exc, faulted>>
       \/ /\ faulted' = TRUE
          /\ exc' = [exc EXCEPT ![p] = "write"]
          /\ pc' = [pc EXCEPT ![p] = "exit"]
          /\ UNCHANGED <<entry, writes>>
    /\ UNCHANGED <<held, dirExists, lock, calls, outcome, computes, sawPartial, nlVars>>

\* torch.save writes the archive and closes the file, or fails on the way
SaveFinish(p) ==
    /\ pc[p] = "saving"
    /\ \/ /\ entry' = [entry EXCEPT ![CacheLocation] = "complete"]
          /\ outcome' = [outcome EXCEPT ![p] = "computed"]
          /\ UNCHANGED <<exc, faulted>>
       \/ /\ faulted' = TRUE
          /\ entry' = [entry EXCEPT ![CacheLocation] = "torn"]
          /\ exc' = [exc EXCEPT ![p] = "write"]
          /\ UNCHANGED outcome
    /\ pc' = [pc EXCEPT ![p] = "exit"]
    /\ UNCHANGED <<held, dirExists, lock, calls, computes, writes, sawPartial, nlVars>>

\* does the exception pending at the end of the `with` block leave forward
Propagates(e) == e \in {"compute", "write"}

\* a lock that is released on the normal exit only
LockKeptOnError(p) == IF Propagates(exc[p]) THEN p ELSE NoProc

\* the lock after `with lock:` is left by process p
LockAfterExit(p) == NoProc

\* the `with` block is left: the lock is released, then forward returns inputs or
\* the pending exception goes on to the caller
ExitLock(p) ==
    /\ pc[p] = "exit"
    /\ lock' = LockAfterExit(p)
    /\ outcome' = [outcome EXCEPT ![p] = IF Propagates(exc[p]) THEN "raised" ELSE @]
    /\ pc' = [pc EXCEPT ![p] = "idle"]
    /\ UNCHANGED <<held, dirExists, entry, calls, exc, computes, writes, faulted,
                   sawPartial, nlVars>>

(***************************************************************************)
(* CachedNeighborList.teardown                                             *)
(***************************************************************************)
\* a teardown that forgets whether the cache existed
RemovesCachePathAlways == ~keep_cache

\* `if not self.keep_cache and not self.preexisting_cache`
RemovesCachePath == ~keep_cache /\ ~preexisting_cache

\* called once the workers have finished.  The rmtree and sync calls are taken to
\* succeed where their directories exist; their failures are swallowed.
Teardown ==
    /\ phase = "ready"
    /\ \A p \in Procs : pc[p] = "idle"
    /\ phase' = "torn_down"
    /\ LET removed == RemovesCachePath
           synced == has_tmp_workdir /\ keep_cache /\ dirExists["work"]
                     /\ dirExists["path"] /\ ~removed
       IN  /\ dirExists' = [path |-> dirExists["path"] /\ ~removed,
                            work |-> dirExists["work"] /\ ~has_tmp_workdir]
           /\ entry' = [path |-> CASE removed -> "absent"
                                   [] synced /\ entry["work"] # "absent" -> entry["work"]
                                   [] OTHER -> entry["path"],
                        work |-> IF has_tmp_workdir THEN "absent" ELSE entry["work"]]
    /\ UNCHANGED <<keep_cache, has_tmp_workdir, preexisting_cache, existedBefore, lock,
                   pc, calls, outcome, exc, computes, writes, faulted, sawPartial,
                   firstEntry, nlVars>>

Step(p) ==
    \/ FirstRead(p)
    \/ Acquire(p)
    \/ RetryRead(p)
    \/ Compute(p)
    \/ SaveOpen(p)
    \/ SaveFinish(p)
    \/ ExitLock(p)

Next ==
    \/ Construct
    \/ Teardown
    \/ \E p \in Procs : Call(p)
    \/ \E p \in Procs : Step(p)

Spec == Init /\ [][Next]_vars

\* every started forward call keeps running, and a process waiting for the lock
\* gets it once it stays free
FairSpec == Spec /\ \A p \in Procs : WF_vars(Step(p))


(***************************************************************************)
(* Properties of the cache                                                 *)
(***************************************************************************)
Returned(p) == pc[p] = "idle" /\ outcome[p] # "unused"

\* C1: the processes race for an id that has no entry file, and neither the wrapped
\* neighbor list nor torch.save fails.  Once every process has returned, the
\* neighbor list was run once, the entry file was written once, and every call
\* returned the neighbor list (read from the file, or computed).
C1_ComputedOnce ==
    (firstEntry = "absent" /\ ~faulted /\ \A p \in Procs : Returned(p)) =>
        /\ computes = 1
        /\ writes = 1
        /\ \A p \in Procs : outcome[p] \in {"hit", "computed"}

\* C2: no torch.load runs on the entry file while a torch.save is writing it
C2_AtomicWrite == ~sawPartial

\* C5: a failure of the wrapped neighbor list or of torch.save leaves forward as an
\* exception; when the lock is left after it, the entry file is no hit; and no
\* lookup ends in an exception, or without a neighbor list, on the file the failed
\* attempt left behind.
C5_FailureNotCached ==
    \A p \in Procs :
        /\ (Returned(p) /\ exc[p] \in {"compute", "write"}) => outcome[p] = "raised"
        /\ (pc[p] = "exit" /\ exc[p] \in {"compute", "write"}) =>
               entry[CacheLocation] # "complete"
        /\ Returned(p) => exc[p] # "torn"

\* C6: a torch.load that fails because the entry file is missing or unreadable never
\* ends the lookup: without a failure of the neighbor list or of torch.save, every
\* lookup returns the neighbor list.
C6_ReadFailureRecovered ==
    \A p \in Procs :
        (Returned(p) /\ exc[p] \notin {"compute", "write"}) =>
            outcome[p] \in {"hit", "computed"}

C10_LockReleased ==
    /\ [](\A p \in Procs : pc[p] = "idle" => lock # p)
    /\ \A p \in Procs : (pc[p] = "acquire") ~> (lock = p)

\* a process waits for the lock while its holder leaves the `with` block with an
\* exception pending
C10_Witness ==
    \E p \in Procs, q \in Procs :
        /\ pc[p] = "acquire"
        /\ lock = q
        /\ pc[q] = "exit"
        /\ Propagates(exc[q])

(***************************************************************************)
(* Properties of the neighbor list                                         *)
(***************************************************************************)
NLReturned == nlPc = "done" /\ ~nlOut.raised

HasLongRange == nlIn.long_range_cutoff > 0

\* the list at the search cutoff, as forward returns it
SearchIdxI == IF HasLongRange THEN nlOut.idx_i_lr ELSE nlOut.idx_i

SearchIdxJ == IF HasLongRange THEN nlOut.idx_j_lr ELSE nlOut.idx_j

SearchRij == IF HasLongRange THEN nlOut.Rij_lr ELSE nlOut.Rij

SearchOffsets == IF HasLongRange THEN nlOut.offsets_lr ELSE nlOut.offsets

\* the displacement from atom i to the image s of atom j
Displacement(i, j, s) ==
    VAdd(VSub(nlIn.positions[j + 1], nlIn.positions[i + 1]),
         ShiftValue(s, nlIn.lattice.cell))

\* C3: cutoff exactness.  forward returns a list; every returned displacement is
\* shorter than the search cutoff; and for every pair of atoms and every distance
\* the list holds as many entries as the brute-force reference search finds images.
C3_CutoffExactness ==
    nlPc = "done" =>
        /\ ~nlOut.raised
        /\ \A k \in DOMAIN SearchRij : Norm2(SearchRij[k]) < nlCut * nlCut
        /\ LET ref == TrueNeighbors(nlIn.positions, nlIn.lattice.cell,
                                    nlIn.lattice.pbc, nlCut)
               atoms == 0..(Len(nlIn.positions) - 1)
           IN  \A i \in atoms, j \in atoms, d2 \in 0..(nlCut * nlCut) :
                   Cardinality({k \in DOMAIN SearchRij :
                                   /\ SearchIdxI[k] = i
                                   /\ SearchIdxJ[k] = j
                                   /\ Norm2(SearchRij[k]) = d2})
                   = Cardinality({t \in ref :
                                   /\ t[1] = i
                                   /\ t[2] = j
                                   /\ Norm2(Displacement(i, j, t[3])) = d2})

\* the number of entries (j, i, -Rij, -shift) mirroring entry k
Mirrors(idx_i, idx_j, Rij, offsets, k) ==
    Cardinality({m \in DOMAIN idx_i :
                    /\ idx_i[m] = idx_j[k]
                    /\ idx_j[m] = idx_i[k]
                    /\ Rij[m] = VNeg(Rij[k])
                    /\ offsets[m] = VNeg(offsets[k])})

\* C4: symmetry.  With offsets returned, every entry (i, j, Rij, shift) of a list
\* TorchNeighborList returned has exactly one entry (j, i, -Rij, -shift) in it.
C4_Symmetry ==
    (nlPc = "done" /\ nlIn.return_offset) =>
        \A c \in DOMAIN nlCalls :
            LET nl == nlCalls[c].result
            IN  \A k \in DOMAIN nl.idx_i :
                    Mirrors(nl.idx_i, nl.idx_j, nl.Rij, nl.offset, k) = 1

\* a returned list holds a self-image entry and an entry with zero shift
C4_Witness ==
    /\ NLReturned
    /\ nlIn.return_offset
    /\ \E k \in DOMAIN SearchIdxI :
          SearchIdxI[k] = SearchIdxJ[k] /\ SearchOffsets[k] # <<0, 0, 0>>
    /\ \E k \in DOMAIN SearchIdxI :
          SearchIdxI[k] # SearchIdxJ[k] /\ SearchOffsets[k] = <<0, 0, 0>>

\* the m-th smallest element of a set of numbers
Nth(set, m) == CHOOSE k \in set : Cardinality({x \in set : x <= k}) = m

\* C7: range split.  With a long-range cutoff, the search ran once, at the
\* long-range cutoff; the long-range list is the list the search returned; and the
\* short-range list is the long-range list restricted, in order, to the entries
\* with norm(Rij) <= short cutoff.
C7_RangeSplit ==
    (NLReturned /\ HasLongRange) =>
        /\ Len(nlCalls) = 1
        /\ nlCalls[1].cutoff = nlIn.long_range_cutoff
        /\ nlOut.idx_i_lr = nlCalls[1].result.idx_i
        /\ nlOut.idx_j_lr = nlCalls[1].result.idx_j
        /\ nlOut.Rij_lr = nlCalls[1].result.Rij
        /\ LET kept == {k \in DOMAIN nlOut.Rij_lr :
                           Norm2(nlOut.Rij_lr[k]) <= nlIn.cutoff * nlIn.cutoff}
           IN  /\ Len(nlOut.Rij) = Cardinality(kept)
               /\ Len(nlOut.idx_i) = Cardinality(kept)
               /\ Len(nlOut.idx_j) = Cardinality(kept)
               /\ \A m \in 1..Cardinality(kept) :
                     /\ nlOut.idx_i[m] = nlOut.idx_i_lr[Nth(kept, m)]
                     /\ nlOut.idx_j[m] = nlOut.idx_j_lr[Nth(kept, m)]
                     /\ nlOut.Rij[m] = nlOut.Rij_lr[Nth(kept, m)]

\* a split that drops an entry, keeps an entry exactly at the short cutoff and
\* keeps an entry after a dropped one
C7_Witness ==
    /\ NLReturned
    /\ HasLongRange
    /\ Len(nlOut.Rij) < Len(nlOut.Rij_lr)
    /\ \E k \in DOMAIN nlOut.Rij : Norm2(nlOut.Rij[k]) = nlIn.cutoff * nlIn.cutoff
    /\ \E k \in DOMAIN nlOut.Rij : nlOut.Rij[k] # nlOut.Rij_lr[k]

\* C9 as stated: every returned entry carries Rij = pos[i] - pos[j] + s.cell
C9_AsStated ==
    (NLReturned /\ nlIn.return_offset) =>
        \A k \in DOMAIN SearchRij :
            SearchRij[k] =
                VAdd(VSub(nlIn.positions[SearchIdxI[k] + 1],
                          nlIn.positions[SearchIdxJ[k] + 1]),
                     ShiftValue(SearchOffsets[k], nlIn.lattice.cell))

\* C9 amended: every returned entry with center i, neighbor j and shift s carries
\* Rij = pos[j] - pos[i] + s.cell, in the list at the search cutoff and in the
\* short-range list.
C9_Displacement ==
    (NLReturned /\ nlIn.return_offset) =>
        /\ \A k \in DOMAIN SearchRij :
              SearchRij[k] = Displacement(SearchIdxI[k], SearchIdxJ[k], SearchOffsets[k])
        /\ \A k \in DOMAIN nlOut.Rij :
              nlOut.Rij[k] = Displacement(nlOut.idx_i[k], nlOut.idx_j[k], nlOut.offsets[k])

\* a returned list in the triclinic cell with an entry of nonzero shift along the
\* second cell vector
C9_Witness ==
    /\ NLReturned
    /\ nlIn.return_offset
    /\ nlIn.lattice.cell = Triclinic
    /\ \E k \in DOMAIN SearchRij :
          SearchOffsets[k][2] # 0 /\ SearchIdxI[k] # SearchIdxJ[k]

====
